---- MODULE Spec2Model ----
(***************************************************************************)
(* Model of the OskarTrack detection-to-track-to-zone core:                *)
(*   src/ai_models/detector.py   SimpleTracker (register, deregister,     *)
(*                               update)                                   *)
(*   src/ai_models/processor.py  VideoProcessor (load_zones,               *)
(*                               point_in_polygon, detect_zone,            *)
(*                               process_frame, process_video)             *)
(*   src/api/main.py             the module-level processor shared by the  *)
(*                               process_image and process_video requests  *)
(* The person detector (OpenCV HOG) is external: its output, a list of     *)
(* boxes (x, y, w, h), is the input of every step.                         *)
(***************************************************************************)
EXTENDS Integers, Sequences, FiniteSets, TLC

VARIABLES
    next_object_id,   \* SimpleTracker.next_object_id
    objects,          \* SimpleTracker.objects      {object_id: centroid}
    disappeared,      \* SimpleTracker.disappeared  {object_id: frames}
    zones,            \* VideoProcessor.zones       list of zone dicts
    last,             \* observation: the last update call (input, pre-state, matching)
    run,              \* observation: per id, consecutive updates without a match
    assigned,         \* observation: ids handed out by register, in order
    removed,          \* observation: ids ever deregistered
    result,           \* observation: the dict returned by the last process_frame
    frames,           \* observation: (detections, result) of the frames processed so far
    tick,             \* updates made so far in a run (Spec, SpecCross, SpecWide)
    resolve,          \* a detect_zone call: where it stands and what it saw
    video,            \* a process_video call: where it stands and what it did
    contains,         \* a point_in_polygon call: its arguments and its outcome
    shadow            \* observation: a tracker of its own, fed only the calls that
                      \* count, and the number of calls kept from it

vars == <<next_object_id, objects, disappeared, zones, last, run, assigned,
          removed, result, frames, tick, resolve, video, contains, shadow>>

-----------------------------------------------------------------------------
(* Bounds *)

\* SimpleTracker(max_disappeared=...): the constructor parameter
max_disappeared == 1
\* longest detection list of one update in Spec
MaxDet == 2
\* updates in one run of Spec
MaxUpdates == 4
\* updates in one run of SpecCross
MaxCross == 2
\* people in the walking-row scene of SpecWide
MaxWide == 9
\* updates in one run of SpecWide
MaxWideTicks == 3
\* longest detection list of one frame in SpecPipe
MaxPipeDet == 3
\* frames processed in one run of SpecPipe
MaxFrames == 2

\* largest vertex coordinate of the polygons of SpecPoly
MaxCoord == 2
\* most vertices of a polygon of SpecPoly
MaxVertices == 3

\* D[row, col] > 50
Gate == 50

\* return None of detect_zone; zone ids are primary keys, 1 or more
None == -1

-----------------------------------------------------------------------------
(* Small helpers: dicts are functions; list(d.keys()) is insertion order.  *)
(* Keys are inserted by register only, with increasing ids, and an update  *)
(* of an existing key keeps its position, so insertion order is ascending  *)
(* id order.                                                               *)

Put(f, k, v) == [x \in (DOMAIN f) \cup {k} |-> IF x = k THEN v ELSE f[x]]

Del(f, k) == [x \in (DOMAIN f) \ {k} |-> f[x]]

Min(S) == CHOOSE x \in S : \A y \in S : x <= y

RECURSIVE Ascending(_)
Ascending(S) == IF S = {} THEN <<>> ELSE <<Min(S)>> \o Ascending(S \ {Min(S)})

keys(d) == Ascending(DOMAIN d)

Range(s) == {s[i] : i \in DOMAIN s}

\* int(v / 2.0) for an integer v: truncation towards zero
IntHalf(v) == IF v >= 0 THEN v \div 2 ELSE -((-v) \div 2)

\* cx = int(x + w / 2.0); cy = int(y + h / 2.0)
Centroid(box) == <<IntHalf(2 * box[1] + box[3]), IntHalf(2 * box[2] + box[4])>>

input_centroids(detections) == [i \in DOMAIN detections |-> Centroid(detections[i])]

\* squared Euclidean distance; cdist takes its square root, which keeps order
Dist2(p, q) == (p[1] - q[1]) * (p[1] - q[1]) + (p[2] - q[2]) * (p[2] - q[2])

-----------------------------------------------------------------------------
(* SimpleTracker: the tracker state is the record                          *)
(* [next_object_id, objects, disappeared].                                  *)

Tracker == [next_object_id |-> next_object_id, objects |-> objects,
            disappeared |-> disappeared]

\* a register that forgets self.next_object_id += 1
register_no_increment(T, centroid) ==
    [next_object_id |-> T.next_object_id,
     objects        |-> Put(T.objects, T.next_object_id, centroid),
     disappeared    |-> Put(T.disappeared, T.next_object_id, 0)]

register(T, centroid) ==
    [next_object_id |-> T.next_object_id + 1,
     objects        |-> Put(T.objects, T.next_object_id, centroid),
     disappeared    |-> Put(T.disappeared, T.next_object_id, 0)]

\* a deregister that forgets del self.objects[object_id]
deregister_disappeared_only(T, object_id) ==
    [next_object_id |-> T.next_object_id,
     objects        |-> T.objects,
     disappeared    |-> Del(T.disappeared, object_id)]

\* a deregister that forgets del self.disappeared[object_id]
deregister_objects_only(T, object_id) ==
    [next_object_id |-> T.next_object_id,
     objects        |-> Del(T.objects, object_id),
     disappeared    |-> T.disappeared]

deregister(T, object_id) ==
    [next_object_id |-> T.next_object_id,
     objects        |-> Del(T.objects, object_id),
     disappeared    |-> Del(T.disappeared, object_id)]

\* an expiry test that is one update late
Expired_late(count) == count > max_disappeared + 1

\* an expiry test that is one update early
Expired_early(count) == count >= max_disappeared

\* self.disappeared[object_id] > self.max_disappeared
Expired(count) == count > max_disappeared

\* an unmatched track that is tested against the threshold and not counted
markDisappeared_no_count(T, object_id) ==
    IF Expired(T.disappeared[object_id]) THEN deregister(T, object_id) ELSE T

\* self.disappeared[object_id] += 1, then deregister when over the threshold
markDisappeared(T, object_id) ==
    LET T1 == [T EXCEPT !.disappeared[object_id] = @ + 1]
    IN  IF Expired(T1.disappeared[object_id]) THEN deregister(T1, object_id) ELSE T1

RECURSIVE markAll(_, _)
markAll(T, ids) ==
    IF ids = <<>> THEN T ELSE markAll(markDisappeared(T, Head(ids)), Tail(ids))

-----------------------------------------------------------------------------
(* Iteration order of set(range(0, n)).difference(used) in CPython, for    *)
(* n <= 18.  Positions are 1-based here and 0-based in the code, so a      *)
(* position p hashes to p - 1.  set(range(0, n)) iterates in ascending     *)
(* order.  When (n >> 2) > len(used) the result is a copy of that set with *)
(* the used elements discarded, which keeps ascending order.  Otherwise    *)
(* the unused elements are inserted one by one into a fresh table of 8     *)
(* slots (slot = hash & 7, then the perturbation probe); the fifth         *)
(* insertion resizes the table to 32 slots, where every element below 32   *)
(* has its own slot, so the order is ascending again.                      *)

EmptySlot == -1

RECURSIVE Probe(_, _, _)
Probe(table, i, perturb) ==
    IF table[i] = EmptySlot THEN i
    ELSE Probe(table, (i * 5 + 1 + (perturb \div 32)) % 8, perturb \div 32)

RECURSIVE InsertAll(_, _)
InsertAll(table, ks) ==
    IF ks = <<>> THEN table
    ELSE LET k == Head(ks)
             i == Probe(table, k % 8, k)
         IN  InsertAll([table EXCEPT ![i] = k], Tail(ks))

RECURSIVE Slots(_, _)
Slots(table, i) ==
    IF i > 7 THEN <<>>
    ELSE (IF table[i] = EmptySlot THEN <<>> ELSE <<table[i] + 1>>) \o Slots(table, i + 1)

SetDifferenceOrder(n, used) ==
    LET unused == (1..n) \ used
    IN  IF (n \div 4) > Cardinality(used) \/ Cardinality(unused) >= 5
        THEN Ascending(unused)
        ELSE Slots(InsertAll([i \in 0..7 |-> EmptySlot],
                             Ascending({p - 1 : p \in unused})), 0)

-----------------------------------------------------------------------------
(* The matching branch of SimpleTracker.update.  Rows are the live tracks  *)
(* in list(self.objects.keys()) order, columns the input centroids.        *)

\* dist.cdist(np.array(object_centroids), np.array(input_centroids)), squared
cdist(oc, ic) == [r \in DOMAIN oc |-> [c \in DOMAIN ic |-> Dist2(oc[r], ic[c])]]

\* D.min(axis=1)[row]
RowMin(D, row) == Min({D[row][c] : c \in DOMAIN D[row]})

\* an arg-max taken for the arg-min
ArgMin_farthest(D, row) ==
    Min({c \in DOMAIN D[row] : \A c2 \in DOMAIN D[row] : D[row][c2] <= D[row][c]})

\* D.argmin(axis=1)[row]: the first column holding the row minimum
ArgMin(D, row) == Min({c \in DOMAIN D[row] : D[row][c] = RowMin(D, row)})

\* D.min(axis=1).argsort(): numpy's default sort is not stable, so rows
\* with equal minima may come out in any relative order.
RECURSIVE SortedOrders(_, _)
SortedOrders(mins, S) ==
    IF S = {} THEN {<<>>}
    ELSE UNION {{<<r>> \o t : t \in SortedOrders(mins, S \ {r})} :
                r \in {x \in S : \A y \in S : mins[x] <= mins[y]}}

\* rows left in dictionary order: the argsort forgotten
ArgsortOrders_unsorted(D) == {[r \in DOMAIN D |-> r]}

ArgsortOrders(D) == SortedOrders([r \in DOMAIN D |-> RowMin(D, r)], DOMAIN D)

\* a gate test pointing the wrong way
OverGate_reversed(D, row, col) == D[row][col] < Gate * Gate

\* a gate test that is missing
OverGate_missing(D, row, col) == FALSE

\* D[row, col] > 50
OverGate(D, row, col) == D[row][col] > Gate * Gate

\* a greedy loop that does not look at used_cols
RECURSIVE greedy_shared_cols(_, _, _)
greedy_shared_cols(D, rows, G) ==
    IF rows = <<>> THEN G
    ELSE LET row == Head(rows)
             col == ArgMin(D, row)
         IN  IF row \in G.used_rows
             THEN greedy_shared_cols(D, Tail(rows), G)
             ELSE IF OverGate(D, row, col)
             THEN greedy_shared_cols(D, Tail(rows), G)
             ELSE greedy_shared_cols(D, Tail(rows),
                         [used_rows |-> G.used_rows \cup {row},
                          used_cols |-> G.used_cols \cup {col},
                          pairs     |-> G.pairs \cup {<<row, col>>}])

\* a greedy loop that falls back to the nearest column still free
RECURSIVE greedy_second_choice(_, _, _)
greedy_second_choice(D, rows, G) ==
    IF rows = <<>> THEN G
    ELSE LET row  == Head(rows)
             free == (DOMAIN D[row]) \ G.used_cols
             col  == IF free = {} THEN ArgMin(D, row)
                     ELSE Min({c \in free : \A c2 \in free : D[row][c] <= D[row][c2]})
         IN  IF row \in G.used_rows \/ col \in G.used_cols
             THEN greedy_second_choice(D, Tail(rows), G)
             ELSE IF OverGate(D, row, col)
             THEN greedy_second_choice(D, Tail(rows), G)
             ELSE greedy_second_choice(D, Tail(rows),
                         [used_rows |-> G.used_rows \cup {row},
                          used_cols |-> G.used_cols \cup {col},
                          pairs     |-> G.pairs \cup {<<row, col>>}])

\* for (row, col) in zip(rows, cols): ... ; G carries used_rows, used_cols
RECURSIVE greedy(_, _, _)
greedy(D, rows, G) ==
    IF rows = <<>> THEN G
    ELSE LET row == Head(rows)
             col == ArgMin(D, row)
         IN  IF row \in G.used_rows \/ col \in G.used_cols
             THEN greedy(D, Tail(rows), G)
             ELSE IF OverGate(D, row, col)
             THEN greedy(D, Tail(rows), G)
             ELSE greedy(D, Tail(rows),
                         [used_rows |-> G.used_rows \cup {row},
                          used_cols |-> G.used_cols \cup {col},
                          pairs     |-> G.pairs \cup {<<row, col>>}])

\* a pairing that forgets self.disappeared[object_id] = 0
applyPairs_keep_count(T, object_ids, ic, pairs) ==
    [next_object_id |-> T.next_object_id,
     objects |-> [id \in DOMAIN T.objects |->
                    IF \E pr \in pairs : object_ids[pr[1]] = id
                    THEN ic[(CHOOSE pr \in pairs : object_ids[pr[1]] = id)[2]]
                    ELSE T.objects[id]],
     disappeared |-> T.disappeared]

\* self.objects[object_id] = input_centroids[col]; self.disappeared[object_id] = 0
applyPairs(T, object_ids, ic, pairs) ==
    [next_object_id |-> T.next_object_id,
     objects |-> [id \in DOMAIN T.objects |->
                    IF \E pr \in pairs : object_ids[pr[1]] = id
                    THEN ic[(CHOOSE pr \in pairs : object_ids[pr[1]] = id)[2]]
                    ELSE T.objects[id]],
     disappeared |-> [id \in DOMAIN T.disappeared |->
                    IF \E pr \in pairs : object_ids[pr[1]] = id
                    THEN 0 ELSE T.disappeared[id]]]

\* a registering loop that registers input_centroids[0] for every column
RECURSIVE registerCols_first_centroid(_, _, _, _)
registerCols_first_centroid(T, ic, cols, given) ==
    IF cols = <<>> THEN [T |-> T, given |-> given]
    ELSE registerCols_first_centroid(register(T, ic[1]), ic, Tail(cols),
                                     Put(given, Head(cols), T.next_object_id))

\* a registering loop that walks the columns from the last to the first
RECURSIVE registerCols_reversed(_, _, _, _)
registerCols_reversed(T, ic, cols, given) ==
    IF cols = <<>> THEN [T |-> T, given |-> given]
    ELSE registerCols_reversed(register(T, ic[cols[Len(cols)]]), ic,
                               SubSeq(cols, 1, Len(cols) - 1),
                               Put(given, cols[Len(cols)], T.next_object_id))

\* for col in unused_cols: self.register(input_centroids[col]); "given"
\* records the key under which each column was stored
RECURSIVE registerCols(_, _, _, _)
registerCols(T, ic, cols, given) ==
    IF cols = <<>> THEN [T |-> T, given |-> given]
    ELSE registerCols(register(T, ic[Head(cols)]), ic, Tail(cols),
                      Put(given, Head(cols), T.next_object_id))

NoPairs == [used_rows |-> {}, used_cols |-> {}, pairs |-> {}]

NoGiven == [c \in {} |-> 0]

\* a zero-detection branch that uses up an id
update_empty_takes_id(T) ==
    [markAll(T, keys(T.disappeared)) EXCEPT !.next_object_id = @ + 1]

\* if len(detections) == 0: every key of disappeared is counted up, and
\* deregistered when over the threshold
update_empty(T) == markAll(T, keys(T.disappeared))

\* for (x, y, w, h) in detections: an item that is not a 4-tuple stops the
\* unpacking with ValueError
Malformed(d) == Len(d) # 4

\* the loop that computes input_centroids raises
Raises(detections) == \E i \in DOMAIN detections : Malformed(detections[i])

\* a loop that registers every centroid as soon as it is computed
tracker_at_raise_registered(T, detections) ==
    LET bad  == Min({i \in DOMAIN detections : Malformed(detections[i])})
        good == SubSeq(detections, 1, bad - 1)
    IN  registerCols(T, input_centroids(good), [i \in DOMAIN good |-> i], NoGiven).T

\* the tracker when that loop raises: the loop has written to the local
\* list input_centroids only, and nothing of the tracker before it
tracker_at_raise(T, detections) == T

\* One call of update on tracker T: the tracker after the call and what
\* the call did.  rows is the outcome of the argsort (matching branch only).
update(T, detections, rows) ==
    LET ic         == input_centroids(detections)
        object_ids == keys(T.objects)
        oc         == [r \in DOMAIN object_ids |-> T.objects[object_ids[r]]]
    IN  IF Len(detections) = 0
        THEN LET T2 == update_empty(T)
             IN  [T |-> T2, branch |-> "empty", pairs |-> {},
                  gone |-> (DOMAIN T.objects) \ (DOMAIN T2.objects),
                  new_cols |-> <<>>, given |-> NoGiven]
        ELSE IF Raises(detections)
        THEN [T |-> tracker_at_raise(T, detections), branch |-> "raised",
              pairs |-> {}, gone |-> {}, new_cols |-> <<>>, given |-> NoGiven]
        ELSE IF Cardinality(DOMAIN T.objects) = 0
        THEN LET R == registerCols(T, ic, [i \in DOMAIN ic |-> i], NoGiven)
             IN  [T |-> R.T, branch |-> "register_all", pairs |-> {},
                  gone |-> {},
                  new_cols |-> [i \in DOMAIN ic |-> i], given |-> R.given]
        ELSE LET G  == greedy(cdist(oc, ic), rows, NoPairs)
                 T1 == applyPairs(T, object_ids, ic, G.pairs)
                 unused_rows == SetDifferenceOrder(Len(object_ids), G.used_rows)
                 T2 == markAll(T1, [i \in DOMAIN unused_rows |-> object_ids[unused_rows[i]]])
                 unused_cols == SetDifferenceOrder(Len(ic), G.used_cols)
                 R  == registerCols(T2, ic, unused_cols, NoGiven)
             IN  [T |-> R.T, branch |-> "match",
                  pairs |-> {<<object_ids[pr[1]], pr[2]>> : pr \in G.pairs},
                  gone |-> (DOMAIN T1.objects) \ (DOMAIN T2.objects),
                  new_cols |-> unused_cols, given |-> R.given]

\* the argsort outcomes of a call (a single dummy when no sort is run)
RowChoices(T, detections) ==
    LET ic         == input_centroids(detections)
        object_ids == keys(T.objects)
        oc         == [r \in DOMAIN object_ids |-> T.objects[object_ids[r]]]
    IN  IF Len(detections) = 0 \/ Raises(detections)
           \/ Cardinality(DOMAIN T.objects) = 0
        THEN {<<>>} ELSE ArgsortOrders(cdist(oc, ic))

-----------------------------------------------------------------------------
(* Inputs of Spec: boxes as the detector returns them, (x, y, w, h).       *)

Boxes == {<<8, 8, 4, 4>>, <<10, 9, 5, 5>>, <<55, -5, 10, 10>>}

\* the lists of length up to n of distinct boxes: a person is detected at
\* most once in a frame
Lists(boxes, n) ==
    UNION {{f \in [1..k -> boxes] : \A i, j \in 1..k : i # j => f[i] # f[j]} :
           k \in 0..n}

DetLists == Lists(Boxes, MaxDet)

\* Inputs of SpecCross: two people about (0,0) and two about (100,100);
\* the centroids are (0,0), (1,1), (99,99) and (100,100).
CrossBoxes == {<<0, 0, 1, 1>>, <<0, 0, 2, 2>>, <<98, 98, 2, 2>>, <<100, 100, 1, 1>>}

CrossLists == Lists(CrossBoxes, MaxDet)

-----------------------------------------------------------------------------
(* VideoProcessor.point_in_polygon.  The loop state is the inside flag,    *)
(* the last value assigned to xinters (unset before the first assignment)  *)
(* and whether reading an unset xinters has raised UnboundLocalError.      *)
(* xinters = (y - p1y) * (p2x - p1x) / (p2y - p1y) + p1x is kept as the    *)
(* fraction num / den plus base, and x <= xinters is decided on integers.  *)

Lesser(a, b) == IF a <= b THEN a ELSE b

Greater(a, b) == IF a >= b THEN a ELSE b

Unset == [set |-> FALSE, num |-> 0, den |-> 1, base |-> 0]

\* x <= xinters
LeqX(x, xi) ==
    IF xi.den > 0 THEN (x - xi.base) * xi.den <= xi.num
                  ELSE (x - xi.base) * xi.den >= xi.num

\* the body of the loop with y < max(p1y, p2y) for y <= max(p1y, p2y)
pip_edge_open_top(point, p1, p2, st) ==
    LET x == point[1]
        y == point[2]
    IN  IF st.error THEN st
        ELSE IF y > Lesser(p1[2], p2[2]) /\ y < Greater(p1[2], p2[2])
                /\ x <= Greater(p1[1], p2[1])
        THEN LET xi == IF p1[2] # p2[2]
                       THEN [set |-> TRUE, num |-> (y - p1[2]) * (p2[1] - p1[1]),
                             den |-> p2[2] - p1[2], base |-> p1[1]]
                       ELSE st.xinters
             IN  IF p1[1] = p2[1]
                 THEN [inside |-> ~st.inside, xinters |-> xi, error |-> FALSE]
                 ELSE IF ~xi.set
                 THEN [inside |-> st.inside, xinters |-> xi, error |-> TRUE]
                 ELSE IF LeqX(x, xi)
                 THEN [inside |-> ~st.inside, xinters |-> xi, error |-> FALSE]
                 ELSE [inside |-> st.inside, xinters |-> xi, error |-> FALSE]
        ELSE st

\* the body of the loop with y >= min(p1y, p2y) for y > min(p1y, p2y)
pip_edge_closed_bottom(point, p1, p2, st) ==
    LET x == point[1]
        y == point[2]
    IN  IF st.error THEN st
        ELSE IF y >= Lesser(p1[2], p2[2]) /\ y <= Greater(p1[2], p2[2])
                /\ x <= Greater(p1[1], p2[1])
        THEN LET xi == IF p1[2] # p2[2]
                       THEN [set |-> TRUE, num |-> (y - p1[2]) * (p2[1] - p1[1]),
                             den |-> p2[2] - p1[2], base |-> p1[1]]
                       ELSE st.xinters
             IN  IF p1[1] = p2[1]
                 THEN [inside |-> ~st.inside, xinters |-> xi, error |-> FALSE]
                 ELSE IF ~xi.set
                 THEN [inside |-> st.inside, xinters |-> xi, error |-> TRUE]
                 ELSE IF LeqX(x, xi)
                 THEN [inside |-> ~st.inside, xinters |-> xi, error |-> FALSE]
                 ELSE [inside |-> st.inside, xinters |-> xi, error |-> FALSE]
        ELSE st

\* x < xinters
LessX(x, xi) ==
    IF xi.den > 0 THEN (x - xi.base) * xi.den < xi.num
                  ELSE (x - xi.base) * xi.den > xi.num

\* the body of the loop with x < xinters for x <= xinters
pip_edge_strict_x(point, p1, p2, st) ==
    LET x == point[1]
        y == point[2]
    IN  IF st.error THEN st
        ELSE IF y > Lesser(p1[2], p2[2]) /\ y <= Greater(p1[2], p2[2])
                /\ x <= Greater(p1[1], p2[1])
        THEN LET xi == IF p1[2] # p2[2]
                       THEN [set |-> TRUE, num |-> (y - p1[2]) * (p2[1] - p1[1]),
                             den |-> p2[2] - p1[2], base |-> p1[1]]
                       ELSE st.xinters
             IN  IF p1[1] = p2[1]
                 THEN [inside |-> ~st.inside, xinters |-> xi, error |-> FALSE]
                 ELSE IF ~xi.set
                 THEN [inside |-> st.inside, xinters |-> xi, error |-> TRUE]
                 ELSE IF LessX(x, xi)
                 THEN [inside |-> ~st.inside, xinters |-> xi, error |-> FALSE]
                 ELSE [inside |-> st.inside, xinters |-> xi, error |-> FALSE]
        ELSE st

\* the body of the loop for the edge (p1, p2)
pip_edge(point, p1, p2, st) ==
    LET x == point[1]
        y == point[2]
    IN  IF st.error THEN st
        ELSE IF y > Lesser(p1[2], p2[2]) /\ y <= Greater(p1[2], p2[2])
                /\ x <= Greater(p1[1], p2[1])
        THEN LET xi == IF p1[2] # p2[2]
                       THEN [set |-> TRUE, num |-> (y - p1[2]) * (p2[1] - p1[1]),
                             den |-> p2[2] - p1[2], base |-> p1[1]]
                       ELSE st.xinters
             IN  IF p1[1] = p2[1]
                 THEN [inside |-> ~st.inside, xinters |-> xi, error |-> FALSE]
                 ELSE IF ~xi.set
                 THEN [inside |-> st.inside, xinters |-> xi, error |-> TRUE]
                 ELSE IF LeqX(x, xi)
                 THEN [inside |-> ~st.inside, xinters |-> xi, error |-> FALSE]
                 ELSE [inside |-> st.inside, xinters |-> xi, error |-> FALSE]
        ELSE st

\* for i in range(n + 1): p2 = polygon[i % n]; ...; p1 = p2
RECURSIVE pip_loop(_, _, _, _, _)
pip_loop(point, polygon, i, p1, st) ==
    IF i > Len(polygon) THEN st
    ELSE LET p2 == polygon[(i % Len(polygon)) + 1]
         IN  pip_loop(point, polygon, i + 1, p2, pip_edge(point, p1, p2, st))

\* polygon[0] of an empty polygon raises IndexError
point_in_polygon(point, polygon) ==
    IF Len(polygon) = 0
    THEN [inside |-> FALSE, xinters |-> Unset, error |-> TRUE]
    ELSE pip_loop(point, polygon, 0, polygon[1],
                  [inside |-> FALSE, xinters |-> Unset, error |-> FALSE])

\* VideoProcessor.detect_zone: the first zone, in list order, containing the point
RECURSIVE detect_zone_from(_, _, _)
detect_zone_from(zs, centroid, i) ==
    IF i > Len(zs) THEN None
    ELSE IF point_in_polygon(centroid, zs[i].coordinates).inside THEN zs[i].id
    ELSE detect_zone_from(zs, centroid, i + 1)

detect_zone(zs, centroid) == detect_zone_from(zs, centroid, 1)

-----------------------------------------------------------------------------
(* Inputs of SpecPipe: four people, with centroids (10,10), (12,10),       *)
(* (60,10) and (30,40), and two rectangular zones, listed clockwise and    *)
(* counter-clockwise from different corners.                               *)

PipeBoxes == {<<8, 8, 4, 4>>, <<10, 8, 4, 4>>, <<55, 5, 10, 10>>, <<29, 39, 3, 3>>}

PipeLists == Lists(PipeBoxes, MaxPipeDet)

ZoneA == [id |-> 1, name |-> "A",
          coordinates |-> << <<12, 0>>, <<62, 0>>, <<62, 20>>, <<12, 20>> >>]

ZoneB == [id |-> 2, name |-> "B",
          coordinates |-> << <<40, 42>>, <<40, 10>>, <<0, 10>>, <<0, 42>> >>]

ZoneLists == {<<>>, <<ZoneA>>, <<ZoneB>>}

\* a person moves 2 px to the right, or 2 px to the right and 2 px down,
\* between two frames
Shifts == {<<2, 0>>, <<2, 2>>}

Shifted(detections, s) ==
    [i \in DOMAIN detections |->
        <<detections[i][1] + s[1], detections[i][2] + s[2],
          detections[i][3], detections[i][4]>>]

-----------------------------------------------------------------------------
(* State after SimpleTracker.__init__ / VideoProcessor.__init__ *)

NoCall == [called |-> FALSE]

\* no detect_zone call has been made
NoResolve == [pc |-> "idle"]

\* no process_video call has been made
NoVideo == [pc |-> "idle"]

\* no point_in_polygon call has been made
NoContains == [pc |-> "idle"]

\* SimpleTracker.__init__: no track, the first id is 0
NewTracker == [next_object_id |-> 0,
               objects |-> [i \in {} |-> <<0, 0>>],
               disappeared |-> [i \in {} |-> 0]]

\* the tracker a caller would own, before any call
OwnTracker == [tracker |-> NewTracker, skipped |-> 0]

Init ==
    /\ next_object_id = 0
    /\ objects = [i \in {} |-> <<0, 0>>]
    /\ disappeared = [i \in {} |-> 0]
    /\ zones = <<>>
    /\ last = NoCall
    /\ run = [i \in {} |-> 0]
    /\ assigned = <<>>
    /\ removed = {}
    /\ result = NoCall
    /\ frames = <<>>
    /\ tick = 0
    /\ resolve = NoResolve
    /\ video = NoVideo
    /\ contains = NoContains
    /\ shadow = OwnTracker

\* The effect of one self.tracker.update(detections) on the tracker and on
\* the observations.
TrackerStep(detections) ==
    \E rows \in RowChoices(Tracker, detections) :
      \E U \in {update(Tracker, detections, rows)} :
        LET matched == {pr[1] : pr \in U.pairs}
            fresh == {U.given[c] : c \in DOMAIN U.given}
        IN  /\ next_object_id' = U.T.next_object_id
            /\ objects' = U.T.objects
            /\ disappeared' = U.T.disappeared
            /\ last' = [called |-> TRUE, detections |-> detections,
                        centroids |-> IF Raises(detections) THEN <<>>
                                      ELSE input_centroids(detections),
                        pre |-> Tracker, branch |-> U.branch, rows |-> rows,
                        pairs |-> U.pairs, gone |-> U.gone,
                        new_cols |-> U.new_cols, given |-> U.given]
            /\ run' = [id \in (DOMAIN run) \cup fresh |->
                         IF U.branch = "raised" THEN run[id]
                         ELSE IF id \in fresh \/ id \in matched THEN 0
                         ELSE IF id \in DOMAIN objects THEN run[id] + 1
                         ELSE run[id]]
            /\ assigned' = assigned \o [i \in DOMAIN U.new_cols |-> U.given[U.new_cols[i]]]
            /\ removed' = removed \cup U.gone

\* SimpleTracker.update(detections), called directly
Update(detections) ==
    /\ tick < MaxUpdates
    /\ TrackerStep(detections)
    /\ tick' = tick + 1
    /\ UNCHANGED <<zones, result, frames, resolve, video, contains, shadow>>

Next == \E detections \in DetLists : Update(detections)

Spec == Init /\ [][Next]_vars

\* SimpleTracker.update(detections) in the crossing scene
UpdateCross(detections) ==
    /\ tick < MaxCross
    /\ TrackerStep(detections)
    /\ tick' = tick + 1
    /\ UNCHANGED <<zones, result, frames, resolve, video, contains, shadow>>

NextCross == \E detections \in CrossLists : UpdateCross(detections)

SpecCross == Init /\ [][NextCross]_vars

\* The walking-row scene: person k (k = 0, 1, ...) walks along a row,
\* 100 px from the next person, k + 1 px per frame; in each frame the
\* detector returns the boxes of the first b people, in order.
WideBox(k, t) == <<100 * k + t * (k + 1), 0, 2, 2>>

WideList(b, t) == [i \in 1..b |-> WideBox(i - 1, t)]

\* SimpleTracker.update(detections) in the walking-row scene
UpdateWide(b) ==
    /\ tick < MaxWideTicks
    /\ TrackerStep(WideList(b, tick))
    /\ tick' = tick + 1
    /\ UNCHANGED <<zones, result, frames, resolve, video, contains, shadow>>

NextWide == \E b \in 0..MaxWide : UpdateWide(b)

SpecWide == Init /\ [][NextWide]_vars

-----------------------------------------------------------------------------
(* SpecBad: updates with well-formed detection lists and updates with a    *)
(* list holding an item that is not (x, y, w, h).  The shadow tracker is   *)
(* fed the well-formed lists only.                                         *)

\* an item with three components
BadBox == <<8, 8, 4>>

\* the lists with one malformed item, alone, after or before a box
BadLists == {<<BadBox>>} \cup {<<b, BadBox>> : b \in Boxes}
                        \cup {<<BadBox, b>> : b \in Boxes}

\* the well-formed lists: nobody, or one person
GoodLists == Lists(Boxes, 1)

\* the shadow after the same call: with the same argsort outcome when it
\* is in the same state as the tracker
ShadowStep(detections) ==
    shadow' \in {[tracker |-> update(shadow.tracker, detections, rows).T,
                  skipped |-> shadow.skipped] :
                    rows \in IF shadow.tracker = Tracker THEN {last'.rows}
                             ELSE RowChoices(shadow.tracker, detections)}

\* SimpleTracker.update(detections) that returns
UpdateGood(detections) ==
    /\ tick < MaxUpdates
    /\ TrackerStep(detections)
    /\ ShadowStep(detections)
    /\ tick' = tick + 1
    /\ UNCHANGED <<zones, result, frames, resolve, video, contains>>

\* SimpleTracker.update(detections) that raises
UpdateRaises(detections) ==
    /\ tick < MaxUpdates
    /\ Raises(detections)
    /\ TrackerStep(detections)
    /\ shadow' = [shadow EXCEPT !.skipped = @ + 1]
    /\ tick' = tick + 1
    /\ UNCHANGED <<zones, result, frames, resolve, video, contains>>

NextBad ==
    \/ \E detections \in GoodLists : UpdateGood(detections)
    \/ \E detections \in BadLists : UpdateRaises(detections)

SpecBad == Init /\ [][NextBad]_vars

\* VideoProcessor.load_zones(zones): self.zones is bound to the list passed
\* in; a detect_zone call in flight notes the reload
LoadZones(zs) ==
    /\ zones' = zs
    /\ resolve' = IF resolve.pc = "loop"
                  THEN [resolve EXCEPT !.seen = @ \cup {zs}] ELSE resolve
    /\ UNCHANGED <<next_object_id, objects, disappeared, last, run, assigned,
                   removed, result, frames, tick, video, contains, shadow>>

\* 'tracked_objects' of a result is the tracker's own dictionary, not a copy
tracked_objects == objects

\* what a result holds under 'tracked_objects': a reference to that
\* dictionary, update having returned self.objects
SelfObjects == "self.tracker.objects"

\* the mapping read now through the 'tracked_objects' of a result
tracks_of(res) ==
    IF res.tracked_objects = SelfObjects THEN objects ELSE res.tracked_objects

\* a process_frame that analyses the tracks as they were before the update
ProcessFrame_before_update(detections) ==
    /\ Len(frames) < MaxFrames
    /\ TrackerStep(detections)
    /\ \E R \in {[called |-> TRUE,
                  detections |-> detections,
                  tracked_objects |-> SelfObjects,
                  zone_analysis |-> [id \in DOMAIN objects |->
                      [position |-> objects[id],
                       zone_id  |-> detect_zone(zones, objects[id])]],
                  person_count |-> Cardinality(DOMAIN objects)]} :
          /\ result' = R
          /\ frames' = Append(frames, [detections |-> detections, zones |-> zones,
                                       tracked |-> objects',
                                       zone_analysis |-> R.zone_analysis,
                                       person_count |-> R.person_count])
    /\ UNCHANGED <<zones, tick, resolve, video, contains>>

\* VideoProcessor.process_frame(frame), where detector.detect(frame)
\* returned detections; drawing on the frame is left out
ProcessFrame(detections) ==
    /\ Len(frames) < MaxFrames
    /\ TrackerStep(detections)
    /\ \E R \in {[called |-> TRUE,
                  detections |-> detections,
                  tracked_objects |-> SelfObjects,
                  zone_analysis |-> [id \in DOMAIN objects' |->
                      [position |-> objects'[id],
                       zone_id  |-> detect_zone(zones, objects'[id])]],
                  person_count |-> Cardinality(DOMAIN objects')]} :
          /\ result' = R
          /\ frames' = Append(frames, [detections |-> detections, zones |-> zones,
                                       tracked |-> objects',
                                       zone_analysis |-> R.zone_analysis,
                                       person_count |-> R.person_count])
    /\ UNCHANGED <<zones, tick, resolve, video, contains>>

\* the first frame of a scene shows any people
FirstFrame(detections) ==
    /\ frames = <<>>
    /\ ProcessFrame(detections)
    /\ UNCHANGED shadow

\* a later frame shows the same boxes, each moved by s
MovedFrame(s) ==
    /\ frames # <<>>
    /\ ProcessFrame(Shifted(frames[Len(frames)].detections, s))
    /\ UNCHANGED shadow

NextPipe ==
    \/ \E zs \in ZoneLists : LoadZones(zs)
    \/ \E detections \in PipeLists : FirstFrame(detections)
    \/ \E s \in Shifts : MovedFrame(s)

SpecPipe == Init /\ [][NextPipe]_vars

-----------------------------------------------------------------------------
(* SpecZone: detect_zone calls and zone reloads, interleaved.  A call of   *)
(* detect_zone is a loop, "for zone in self.zones": the attribute is read  *)
(* once, when the loop starts, and the loop then walks the list object it  *)
(* got; load_zones binds the attribute to another list and leaves the old  *)
(* list object as it was.  One step of the model is one turn of the loop.  *)

\* a zone whose polygon has two vertices only
ZoneLine == [id |-> 3, name |-> "L",
             coordinates |-> << <<0, 0>>, <<50, 50>> >>]

\* the lists passed to load_zones: zones A and B overlap
ZoneLoads == {<<>>, <<ZoneA, ZoneB>>, <<ZoneB, ZoneA>>, <<ZoneA, ZoneLine>>}

\* points in both A and B, in A only, in B only, and in neither
Points == {<<14, 12>>, <<20, 5>>, <<5, 30>>, <<100, 100>>}

\* detect_zone(centroid) is called and its loop takes the list self.zones
\* is bound to at that moment
DetectStart(point) ==
    /\ resolve.pc # "loop"
    /\ resolve' = [pc |-> "loop", point |-> point, start |-> zones,
                   it |-> zones, i |-> 1, seen |-> {}, ret |-> None]
    /\ UNCHANGED <<next_object_id, objects, disappeared, zones, last, run,
                   assigned, removed, result, frames, tick, video, contains,
                   shadow>>

\* a loop that reads self.zones again on every turn
zones_in_flight_reread(it, zs) == zs

\* the list walked by the loop of a call in flight: it is the list the
\* loop started on, zs is the list self.zones is bound to now
zones_in_flight(it, zs) == it

\* a loop that does not return on the first hit and ends with the last one
DetectStep_keep_last ==
    /\ resolve.pc = "loop"
    /\ LET L == zones_in_flight(resolve.it, zones)
       IN  resolve' =
             IF resolve.i > Len(L)
             THEN [resolve EXCEPT !.pc = "done"]
             ELSE IF point_in_polygon(resolve.point, L[resolve.i].coordinates).inside
             THEN [resolve EXCEPT !.ret = L[resolve.i].id, !.i = @ + 1]
             ELSE [resolve EXCEPT !.i = @ + 1]
    /\ UNCHANGED <<next_object_id, objects, disappeared, zones, last, run,
                   assigned, removed, result, frames, tick, video, contains,
                   shadow>>

\* one turn of the loop of detect_zone: return the id of the zone at hand
\* when it contains the point, return None when the list is exhausted
DetectStep ==
    /\ resolve.pc = "loop"
    /\ LET L == zones_in_flight(resolve.it, zones)
       IN  resolve' =
             IF resolve.i > Len(L)
             THEN [resolve EXCEPT !.pc = "done", !.ret = None]
             ELSE IF point_in_polygon(resolve.point, L[resolve.i].coordinates).inside
             THEN [resolve EXCEPT !.pc = "done", !.ret = L[resolve.i].id]
             ELSE [resolve EXCEPT !.i = @ + 1]
    /\ UNCHANGED <<next_object_id, objects, disappeared, zones, last, run,
                   assigned, removed, result, frames, tick, video, contains,
                   shadow>>

NextZone ==
    \/ \E zs \in ZoneLoads : LoadZones(zs)
    \/ \E point \in Points : DetectStart(point)
    \/ DetectStep

SpecZone == Init /\ [][NextZone]_vars

-----------------------------------------------------------------------------
(* SpecVideo: one process_video call.  The file has n frames; cap.read()   *)
(* hands them out in order and then reports the end.  What the detector    *)
(* finds in a frame matters for a sampled frame only; a skipped frame is   *)
(* never looked at.                                                        *)

\* if frame_count % 5 == 0
SampleEvery == 5

\* the lengths of the file: up to MaxFrames frames of it are processed
VideoLengths == 0..(SampleEvery * MaxFrames)

\* what the detector finds in a processed frame: nobody, or one person
VideoLists == Lists(Boxes, 1)

\* cv2.VideoCapture(video_path); a file that does not open raises ValueError
VideoOpen(n, opened, callback) ==
    /\ video.pc = "idle"
    /\ video' = IF opened
                THEN [pc |-> "loop", n |-> n, callback |-> callback,
                      frame_count |-> 0, results |-> <<>>, calls |-> <<>>]
                ELSE [pc |-> "raised"]
    /\ UNCHANGED <<next_object_id, objects, disappeared, zones, last, run,
                   assigned, removed, result, frames, tick, resolve,
                   contains, shadow>>

\* a sampling test that counts the frames from 1
Sampled_skips_first(frame_count) == frame_count % SampleEvery = SampleEvery - 1

\* frame_count % 5 == 0
Sampled(frame_count) == frame_count % SampleEvery = 0

\* ret, frame = cap.read(): the end of the file leaves the loop and returns
\* results; a frame that is not sampled is only counted
VideoRead(detections) ==
    /\ video.pc = "loop"
    /\ video' = IF video.frame_count >= video.n
                THEN [video EXCEPT !.pc = "done"]
                ELSE IF Sampled(video.frame_count)
                THEN [pc |-> "frame", n |-> video.n, callback |-> video.callback,
                      frame_count |-> video.frame_count, results |-> video.results,
                      calls |-> video.calls, pending |-> detections]
                ELSE [video EXCEPT !.frame_count = @ + 1]
    /\ UNCHANGED <<next_object_id, objects, disappeared, zones, last, run,
                   assigned, removed, result, frames, tick, resolve,
                   contains, shadow>>

\* result = self.process_frame(frame)
VideoProcess ==
    /\ video.pc = "frame"
    /\ Len(frames) = Len(video.results)
    /\ ProcessFrame(video.pending)
    /\ UNCHANGED shadow

\* results.append(result); if callback: callback(result, frame_count);
\* frame_count += 1
VideoAppend ==
    /\ video.pc = "frame"
    /\ Len(frames) = Len(video.results) + 1
    /\ video' = [pc |-> "loop", n |-> video.n, callback |-> video.callback,
                 frame_count |-> video.frame_count + 1,
                 results |-> Append(video.results,
                                    [index |-> video.frame_count, result |-> result]),
                 calls |-> IF video.callback
                           THEN Append(video.calls,
                                       [result |-> result, frame_count |-> video.frame_count])
                           ELSE video.calls]
    /\ UNCHANGED <<next_object_id, objects, disappeared, zones, last, run,
                   assigned, removed, result, frames, tick, resolve,
                   contains, shadow>>

NextVideo ==
    \/ \E n \in VideoLengths : \E opened, callback \in BOOLEAN :
          VideoOpen(n, opened, callback)
    \/ \E detections \in VideoLists : VideoRead(detections)
    \/ VideoProcess
    \/ VideoAppend

SpecVideo == Init /\ [][NextVideo]_vars

-----------------------------------------------------------------------------
(* SpecStreams: the requests of the API, one frame source after another.   *)
(* process_image and process_video both call the module-level processor,   *)
(* built once when the module is loaded; a request loads the zones and     *)
(* then has its frames processed.  The shadow tracker is the tracker a     *)
(* source would have to itself: new at every request, and fed that         *)
(* request's frames only.                                                  *)

\* a request arrives: processor.load_zones(...) on the one processor; no
\* tracker is made
SourceRequest(zs) ==
    /\ zones' = zs
    /\ shadow' = [tracker |-> NewTracker, skipped |-> Len(frames)]
    /\ UNCHANGED <<next_object_id, objects, disappeared, last, run, assigned,
                   removed, result, frames, tick, resolve, video, contains>>

\* processor.process_frame(image), or one processed frame of
\* processor.process_video(temp_path)
SourceFrame(detections) ==
    /\ ProcessFrame(detections)
    /\ ShadowStep(detections)

NextStreams ==
    \/ \E zs \in ZoneLists : SourceRequest(zs)
    \/ \E detections \in VideoLists : SourceFrame(detections)

SpecStreams == Init /\ [][NextStreams]_vars

-----------------------------------------------------------------------------
(* SpecPoly: point_in_polygon applied to a simple polygon with integer     *)
(* vertices and an integer point.  The polygons are all vertex lists of 3  *)
(* to MaxVertices distinct points of the grid 0..MaxCoord whose edges meet *)
(* only at shared end points, in every orientation and from every first    *)
(* vertex, and a few polygons with a reflex vertex; the points are those   *)
(* of the grid and of a margin of 1 around it.                             *)

Grid == (0..MaxCoord) \X (0..MaxCoord)

ProbePoints == ((-1)..(MaxCoord + 1)) \X ((-1)..(MaxCoord + 1))

\* twice the signed area of the triangle o, a, b
Cross(o, a, b) == (a[1] - o[1]) * (b[2] - o[2]) - (a[2] - o[2]) * (b[1] - o[1])

Sign(v) == IF v > 0 THEN 1 ELSE IF v < 0 THEN -1 ELSE 0

\* p lies on the closed segment from a to b
OnSegment(p, a, b) ==
    /\ Cross(a, b, p) = 0
    /\ Lesser(a[1], b[1]) <= p[1] /\ p[1] <= Greater(a[1], b[1])
    /\ Lesser(a[2], b[2]) <= p[2] /\ p[2] <= Greater(a[2], b[2])

\* the closed segments a-b and c-d have a point in common
SegmentsMeet(a, b, c, d) ==
    \/ /\ Sign(Cross(c, d, a)) * Sign(Cross(c, d, b)) < 0
       /\ Sign(Cross(a, b, c)) * Sign(Cross(a, b, d)) < 0
    \/ OnSegment(a, c, d) \/ OnSegment(b, c, d)
    \/ OnSegment(c, a, b) \/ OnSegment(d, a, b)

\* the vertex after position i, cyclically
After(poly, i) == poly[(i % Len(poly)) + 1]

\* a simple polygon: distinct vertices, neighbouring edges share their
\* common vertex only, other edges share nothing
IsSimple(poly) ==
    LET n == Len(poly)
    IN  /\ \A i, j \in 1..n : i # j => poly[i] # poly[j]
        /\ \A i, j \in 1..n :
              i < j =>
                IF j = i + 1
                THEN /\ ~OnSegment(poly[i], poly[j], After(poly, j))
                     /\ ~OnSegment(After(poly, j), poly[i], poly[j])
                ELSE IF i = 1 /\ j = n
                THEN /\ ~OnSegment(poly[n], poly[1], poly[2])
                     /\ ~OnSegment(poly[2], poly[n], poly[1])
                ELSE ~SegmentsMeet(poly[i], After(poly, i), poly[j], After(poly, j))

\* polygons with a reflex vertex: an arrow head and a square with a notch,
\* from two first vertices each
Notched ==
    { << <<0, 0>>, <<2, 1>>, <<0, 2>>, <<1, 1>> >>,
      << <<1, 1>>, <<0, 0>>, <<2, 1>>, <<0, 2>> >>,
      << <<0, 0>>, <<2, 0>>, <<1, 1>>, <<2, 2>>, <<0, 2>> >>,
      << <<2, 2>>, <<0, 2>>, <<0, 0>>, <<2, 0>>, <<1, 1>> >> }

Polygons ==
    {poly \in UNION {[1..n -> Grid] : n \in 3..MaxVertices} : IsSimple(poly)}
        \cup {poly \in Notched : IsSimple(poly)}

\* the if-block of the loop body is entered for the edge (p1, p2) and
\* x <= xinters is evaluated without xinters having been assigned in this
\* turn of the loop
reads_old_xinters(point, p1, p2) ==
    /\ point[2] > Lesser(p1[2], p2[2])
    /\ point[2] <= Greater(p1[2], p2[2])
    /\ point[1] <= Greater(p1[1], p2[1])
    /\ p1[2] = p2[2]
    /\ p1[1] # p2[1]

\* the loop of point_in_polygon once more, keeping for every turn i of
\* range(n + 1) the edge (p1, p2) it handles, p2 = polygon[i % n], and the
\* loop state before and after it
RECURSIVE pip_trace(_, _, _, _, _)
pip_trace(point, polygon, i, p1, st) ==
    IF i > Len(polygon) THEN <<>>
    ELSE LET p2 == polygon[(i % Len(polygon)) + 1]
             s2 == pip_edge(point, p1, p2, st)
         IN  <<[p1 |-> p1, p2 |-> p2, before |-> st, after |-> s2,
                old |-> reads_old_xinters(point, p1, p2)]>>
             \o pip_trace(point, polygon, i + 1, p2, s2)

\* state before point_in_polygon(point, polygon) is called
InitPoly ==
    /\ next_object_id = 0
    /\ objects = [i \in {} |-> <<0, 0>>]
    /\ disappeared = [i \in {} |-> 0]
    /\ zones = <<>>
    /\ last = NoCall
    /\ run = [i \in {} |-> 0]
    /\ assigned = <<>>
    /\ removed = {}
    /\ result = NoCall
    /\ frames = <<>>
    /\ tick = 0
    /\ resolve = NoResolve
    /\ video = NoVideo
    /\ shadow = OwnTracker
    /\ contains \in {[pc |-> "args", polygon |-> poly, point |-> point] :
                       poly \in Polygons, point \in ProbePoints}

\* point_in_polygon(point, polygon) runs and returns inside
PointInPolygon ==
    /\ contains.pc = "args"
    /\ contains' = [pc |-> "done", polygon |-> contains.polygon,
                    point |-> contains.point,
                    st |-> point_in_polygon(contains.point, contains.polygon),
                    trace |-> pip_trace(contains.point, contains.polygon, 0,
                                        contains.polygon[1],
                                        [inside |-> FALSE, xinters |-> Unset,
                                         error |-> FALSE])]
    /\ UNCHANGED <<next_object_id, objects, disappeared, zones, last, run,
                   assigned, removed, result, frames, tick, resolve, video,
                   shadow>>

NextPoly == PointInPolygon

SpecPoly == InitPoly /\ [][NextPoly]_vars

-----------------------------------------------------------------------------
(* Claims.  "The returned mapping" of an update is self.objects itself,    *)
(* so right after the call it is the variable objects.                     *)

\* within the 50 px gate, on squared distances
Within50(p, q) == Dist2(p, q) <= 2500

\* the only element of a one-element set
TheOne(S) == CHOOSE x \in S : TRUE

(* C1: whenever the tracker holds exactly one live track and update is     *)
(* called with exactly one detection whose centroid is within 50 px of     *)
(* the track's centroid, the returned mapping has the same id mapped to    *)
(* the new centroid, no track is registered (next_object_id unchanged)     *)
(* and the track's disappeared count is 0.                                 *)
C1_Case ==
    /\ last.called
    /\ Cardinality(DOMAIN last.pre.objects) = 1
    /\ Len(last.centroids) = 1
    /\ Within50(last.pre.objects[TheOne(DOMAIN last.pre.objects)], last.centroids[1])

C1_IdentityPersistence ==
    C1_Case =>
        LET id == TheOne(DOMAIN last.pre.objects)
        IN  /\ id \in DOMAIN objects
            /\ objects[id] = last.centroids[1]
            /\ DOMAIN objects = {id}
            /\ next_object_id = last.pre.next_object_id
            /\ id \in DOMAIN disappeared
            /\ disappeared[id] = 0

\* the track at (10,10) has been fed the detection centred at (12,11),
\* after having been unmatched before
C1_Witness ==
    /\ C1_Case
    /\ last.pre.objects[TheOne(DOMAIN last.pre.objects)] = <<10, 10>>
    /\ last.pre.disappeared[TheOne(DOMAIN last.pre.objects)] > 0
    /\ last.centroids = << <<12, 11>> >>
    /\ objects[TheOne(DOMAIN last.pre.objects)] = <<12, 11>>

(* C2: a track that goes unmatched in max_disappeared + 1 consecutive      *)
(* updates is absent from the mapping returned by the last of them, and    *)
(* from the live set.  run[id] counts the consecutive updates, since the   *)
(* track was registered or last matched, in which it was live and not      *)
(* matched.                                                                *)
C2_Expiry ==
    \A id \in DOMAIN run :
        run[id] >= max_disappeared + 1 =>
            /\ id \notin DOMAIN objects
            /\ id \notin DOMAIN disappeared

\* a track expired in the matching branch on exactly its
\* (max_disappeared + 1)-th unmatched update
C2_Witness ==
    /\ last.called
    /\ last.branch = "match"
    /\ \E id \in last.gone : run[id] = max_disappeared + 1

(* C3: ids are handed out 0, 1, 2, ... in registration order, every id     *)
(* handed out is below next_object_id, and a deregistered id is never      *)
(* live again.                                                             *)
C3_IdsMonotone ==
    /\ \A k \in DOMAIN assigned : assigned[k] = k - 1
    /\ \A k \in DOMAIN assigned : assigned[k] < next_object_id
    /\ \A id \in DOMAIN objects : id < next_object_id
    /\ removed \cap DOMAIN objects = {}

\* an id was deregistered and a later one registered after it
C3_Witness ==
    /\ removed # {}
    /\ \E id \in DOMAIN objects : \A r \in removed : id > r
    /\ Len(assigned) >= 3

(* C4: after every update the key sets of objects and disappeared are      *)
(* equal; every live id has one centroid (a pair of integers) and one      *)
(* count.                                                                  *)
C4_LiveSet ==
    /\ DOMAIN objects = DOMAIN disappeared
    /\ \A id \in DOMAIN objects :
          /\ objects[id] \in Int \X Int
          /\ disappeared[id] \in Nat

\* an update that deregistered one track and kept another
C4_Witness ==
    /\ last.called
    /\ last.gone # {}
    /\ DOMAIN objects # {}
    /\ DOMAIN last.pre.objects \cap DOMAIN objects # {}

\* Reading the last update: distances between the centroids the tracks had
\* before the call and the input centroids, and what was matched.
DistTo(id, c) == Dist2(last.pre.objects[id], last.centroids[c])

\* the nearest detection of a track: the first input position at minimal distance
Nearest(id) ==
    Min({c \in DOMAIN last.centroids :
            \A c2 \in DOMAIN last.centroids : DistTo(id, c) <= DistTo(id, c2)})

MatchedIds == {pr[1] : pr \in last.pairs}

MatchedCols == {pr[2] : pr \in last.pairs}

\* input position c was registered as a brand-new track at its centroid
RegisteredNew(c) ==
    /\ c \in DOMAIN last.given
    /\ last.given[c] \notin DOMAIN last.pre.objects
    /\ last.given[c] >= last.pre.next_object_id
    /\ last.given[c] \in DOMAIN objects
    /\ objects[last.given[c]] = last.centroids[c]
    /\ disappeared[last.given[c]] = 0

\* track id was left unmatched: same centroid, count one higher
KeptUnmatched(id) ==
    /\ id \in DOMAIN objects
    /\ objects[id] = last.pre.objects[id]
    /\ disappeared[id] = last.pre.disappeared[id] + 1

\* track id was left unmatched: count one higher and, when that exceeds
\* max_disappeared, deregistered
UnmatchedOrExpired(id) ==
    IF last.pre.disappeared[id] + 1 > max_disappeared
    THEN id \notin DOMAIN objects /\ id \notin DOMAIN disappeared
    ELSE KeptUnmatched(id)

\* no matched pair is more than 50 px apart
C5_NeverOverGate ==
    last.called => \A pr \in last.pairs : Within50(last.pre.objects[pr[1]], last.centroids[pr[2]])

\* one live track and a single detection more than 50 px away from it
C5_Case ==
    /\ last.called
    /\ Cardinality(DOMAIN last.pre.objects) = 1
    /\ Len(last.centroids) = 1
    /\ ~Within50(last.pre.objects[TheOne(DOMAIN last.pre.objects)], last.centroids[1])

(* C5 as stated: a pair more than 50 px apart is never matched; with one   *)
(* live track and a single detection over the gate, the old track keeps    *)
(* its centroid with its count one higher and the detection becomes a      *)
(* new track with a fresh id.                                              *)
C5_AsStated ==
    /\ C5_NeverOverGate
    /\ C5_Case => /\ KeptUnmatched(TheOne(DOMAIN last.pre.objects))
                  /\ RegisteredNew(1)
                  /\ next_object_id = last.pre.next_object_id + 1

(* C5, amended: a pair more than 50 px apart is never matched; with one    *)
(* live track and a single detection over the gate, the old track's count  *)
(* goes up by 1 and it keeps its centroid unless the new count exceeds     *)
(* max_disappeared, in which case it is deregistered; in both cases the    *)
(* detection becomes a new track with a fresh id.                          *)
C5_GateRejection ==
    /\ C5_NeverOverGate
    /\ C5_Case => /\ UnmatchedOrExpired(TheOne(DOMAIN last.pre.objects))
                  /\ RegisteredNew(1)
                  /\ next_object_id = last.pre.next_object_id + 1

\* the track at (10,10) met the lone detection centred at (60,0), 51 px
\* away, and survived
C5_Witness ==
    /\ C5_Case
    /\ last.pre.objects[TheOne(DOMAIN last.pre.objects)] = <<10, 10>>
    /\ last.centroids = << <<60, 0>> >>
    /\ KeptUnmatched(TheOne(DOMAIN last.pre.objects))
    /\ RegisteredNew(1)

\* exactly two live tracks, a at (0,0) and b at (100,100), are fed the
\* centroids (1,1) and (99,99) in either order
C6_Case(a, b) ==
    /\ last.called
    /\ DOMAIN last.pre.objects = {a, b}
    /\ a # b
    /\ last.pre.objects[a] = <<0, 0>>
    /\ last.pre.objects[b] = <<100, 100>>
    /\ \/ last.centroids = << <<1, 1>>, <<99, 99>> >>
       \/ last.centroids = << <<99, 99>>, <<1, 1>> >>

(* C6: two live tracks at (0,0) and (100,100) fed the centroids (1,1) and  *)
(* (99,99): the first is moved to (1,1) and the second to (99,99), for     *)
(* both orders of the detections and both id orders of the tracks; no      *)
(* track is registered and both counts are 0.                              *)
C6_NoCrossMatch ==
    \A a, b \in DOMAIN objects :
        C6_Case(a, b) =>
            /\ DOMAIN objects = {a, b}
            /\ objects[a] = <<1, 1>>
            /\ objects[b] = <<99, 99>>
            /\ next_object_id = last.pre.next_object_id
            /\ disappeared[a] = 0
            /\ disappeared[b] = 0

\* the track at (100,100) comes first in the dictionary and the detection
\* about (0,0) comes first in the input
C6_Witness ==
    /\ last.called
    /\ \E a, b \in DOMAIN last.pre.objects :
          /\ C6_Case(a, b)
          /\ b < a
          /\ last.centroids = << <<1, 1>>, <<99, 99>> >>
          /\ objects[a] = <<1, 1>>

\* track id found its nearest detection taken by another track
C7_Blocked(id) ==
    /\ last.called
    /\ last.branch = "match"
    /\ id \in DOMAIN last.pre.objects
    /\ \E pr \in last.pairs : pr[2] = Nearest(id) /\ pr[1] # id

(* C7 as stated: a track whose nearest detection has been taken by another *)
(* track stays unmatched (centroid unchanged, count incremented) even      *)
(* when an unclaimed detection lies within 50 px of it, and that           *)
(* unclaimed detection is registered as a new track.                       *)
C7_AsStated ==
    last.called =>
        \A id \in DOMAIN last.pre.objects :
            C7_Blocked(id) =>
                /\ id \notin MatchedIds
                /\ KeptUnmatched(id)
                /\ \A c \in (DOMAIN last.centroids) \ MatchedCols : RegisteredNew(c)

(* C7, amended: a track whose nearest detection has been taken by another  *)
(* track stays unmatched even when an unclaimed detection lies within 50   *)
(* px of it: its count is incremented and its centroid unchanged, unless   *)
(* the new count exceeds max_disappeared, in which case it is              *)
(* deregistered; the unclaimed detection is registered as a new track.     *)
C7_NoSecondChoice ==
    last.called =>
        \A id \in DOMAIN last.pre.objects :
            C7_Blocked(id) =>
                /\ id \notin MatchedIds
                /\ UnmatchedOrExpired(id)
                /\ \A c \in (DOMAIN last.centroids) \ MatchedCols : RegisteredNew(c)

\* a blocked track with an unclaimed detection within 50 px of it, which
\* became a new track while the blocked track stayed where it was
C7_Witness ==
    /\ last.called
    /\ \E id \in DOMAIN last.pre.objects :
          /\ C7_Blocked(id)
          /\ KeptUnmatched(id)
          /\ \E c \in (DOMAIN last.centroids) \ MatchedCols :
                /\ Within50(last.pre.objects[id], last.centroids[c])
                /\ RegisteredNew(c)

\* tracks a and b have the same nearest detection, both within the gate,
\* and a is strictly closer to it
C8_Contend(a, b) ==
    /\ last.called
    /\ last.branch = "match"
    /\ a # b
    /\ Nearest(a) = Nearest(b)
    /\ DistTo(a, Nearest(a)) < DistTo(b, Nearest(a))
    /\ DistTo(b, Nearest(a)) <= 2500

(* C8: rows are taken in ascending order of their minimum distance; when   *)
(* two tracks have the same nearest detection, both within the gate, the   *)
(* farther one is not matched to it, and the closer one is, provided no    *)
(* third track with that nearest detection is as close.                    *)
C8_Priority ==
    (last.called /\ last.branch = "match") =>
        LET ids == keys(last.pre.objects)
        IN  /\ \A i, j \in DOMAIN last.rows :
                  i < j => DistTo(ids[last.rows[i]], Nearest(ids[last.rows[i]]))
                             <= DistTo(ids[last.rows[j]], Nearest(ids[last.rows[j]]))
            /\ \A a, b \in DOMAIN last.pre.objects :
                  C8_Contend(a, b) =>
                      /\ <<b, Nearest(a)>> \notin last.pairs
                      /\ (\A o \in (DOMAIN last.pre.objects) \ {a} :
                             Nearest(o) = Nearest(a) => DistTo(o, Nearest(a)) > DistTo(a, Nearest(a)))
                         => <<a, Nearest(a)>> \in last.pairs

\* the closer track is the later one in dictionary order and won
C8_Witness ==
    /\ last.called
    /\ \E a, b \in DOMAIN last.pre.objects :
          /\ C8_Contend(a, b)
          /\ b < a
          /\ <<a, Nearest(a)>> \in last.pairs
          /\ b \notin MatchedIds

(* C9: in an update that runs the matching branch, the detections left     *)
(* unmatched are registered in input order: an unmatched detection at an   *)
(* earlier input position gets a smaller id, and the new ids are           *)
(* consecutive from the next_object_id before the update.                  *)
C9_InputOrder ==
    (last.called /\ last.branch = "match") =>
        LET unmatched == (DOMAIN last.centroids) \ MatchedCols
        IN  /\ \A c \in unmatched : RegisteredNew(c)
            /\ \A i, j \in unmatched : i < j => last.given[i] < last.given[j]
            /\ {last.given[c] : c \in unmatched} =
                   last.pre.next_object_id ..
                       (last.pre.next_object_id + Cardinality(unmatched) - 1)

\* the corners of an axis-parallel rectangle given as a vertex list
XMin(coords) == Min({coords[i][1] : i \in DOMAIN coords})

XMax(coords) == -Min({-coords[i][1] : i \in DOMAIN coords})

YMin(coords) == Min({coords[i][2] : i \in DOMAIN coords})

YMax(coords) == -Min({-coords[i][2] : i \in DOMAIN coords})

\* containment in a rectangle under the ray-casting edge policy: the left
\* and lower sides are outside, the right and upper sides inside
RectContains(coords, p) ==
    /\ XMin(coords) < p[1] /\ p[1] <= XMax(coords)
    /\ YMin(coords) < p[2] /\ p[2] <= YMax(coords)

\* zone_analysis of a processed frame agrees with containment in the one
\* rectangle loaded at the time
ZonesRight(f) ==
    \A id \in DOMAIN f.zone_analysis :
        f.zone_analysis[id].zone_id =
            IF RectContains(f.zones[1].coordinates, f.zone_analysis[id].position)
            THEN f.zones[1].id ELSE None

\* two frames were processed on a fresh pipeline with one rectangular zone
\* loaded: three detections, then the same boxes each moved by s
C10_Case(s) ==
    /\ Len(frames) = 2
    /\ Len(frames[1].detections) = 3
    /\ frames[2].detections = Shifted(frames[1].detections, s)
    /\ Len(frames[1].zones) = 1
    /\ Len(frames[1].zones[1].coordinates) = 4
    /\ frames[2].zones = frames[1].zones

\* what C10 promises of the two frames
C10_Outcome ==
    /\ DOMAIN frames[1].zone_analysis = {0, 1, 2}
    /\ \A i \in 1..3 :
          frames[1].zone_analysis[i - 1].position = Centroid(frames[1].detections[i])
    /\ DOMAIN tracked_objects = {0, 1, 2}
    /\ DOMAIN frames[2].zone_analysis = {0, 1, 2}
    /\ \A i \in 1..3 :
          /\ tracked_objects[i - 1] = Centroid(frames[2].detections[i])
          /\ frames[2].zone_analysis[i - 1].position = Centroid(frames[2].detections[i])
    /\ next_object_id = 3
    /\ result.person_count = 3
    /\ ZonesRight(frames[1])
    /\ ZonesRight(frames[2])

(* C10 as stated: any three detections as frame 1 give the ids 0, 1, 2 in  *)
(* input order; the same boxes moved by 2 px as frame 2 give the same      *)
(* three ids, each at the moved centroid of its own box, no fourth id,     *)
(* and zone_id is the zone's id exactly when the centroid is in the        *)
(* rectangle.                                                              *)
C10_AsStated == \A s \in Shifts : C10_Case(s) => C10_Outcome

\* the centroids of frame 1 are pairwise more than twice the length of s apart
FarApart(s) ==
    \A i, j \in 1..3 :
        i # j => Dist2(Centroid(frames[1].detections[i]),
                       Centroid(frames[1].detections[j]))
                     > 4 * (s[1] * s[1] + s[2] * s[2])

(* C10, amended: the same, for three detections whose centroids are        *)
(* pairwise more than twice the shift distance apart.                      *)
C10_EndToEnd == \A s \in Shifts : (C10_Case(s) /\ FarApart(s)) => C10_Outcome

\* three people far apart, moved diagonally, one of them inside the zone
\* and one outside
C10_Witness ==
    /\ C10_Case(<<2, 2>>)
    /\ FarApart(<<2, 2>>)
    /\ \E a, b \in DOMAIN frames[2].zone_analysis :
          /\ frames[2].zone_analysis[a].zone_id = frames[2].zones[1].id
          /\ frames[2].zone_analysis[b].zone_id = None
    /\ DOMAIN tracked_objects = {0, 1, 2}

\* the tracks of the pre-state whose count, once incremented, is over the
\* threshold
OverThreshold == {id \in DOMAIN last.pre.objects :
                     last.pre.disappeared[id] + 1 > max_disappeared}

(* C11: an update with zero detections raises the count of every track     *)
(* live before the call by exactly 1, deregisters exactly the tracks whose *)
(* count now exceeds max_disappeared, leaves the survivors their id and    *)
(* centroid, registers nothing (next_object_id unchanged), and returns     *)
(* the surviving live set.                                                 *)
C11_ZeroDetections ==
    (last.called /\ Len(last.detections) = 0) =>
        /\ DOMAIN objects = (DOMAIN last.pre.objects) \ OverThreshold
        /\ DOMAIN disappeared = DOMAIN objects
        /\ last.gone = OverThreshold
        /\ \A id \in DOMAIN objects :
              /\ objects[id] = last.pre.objects[id]
              /\ disappeared[id] = last.pre.disappeared[id] + 1
        /\ next_object_id = last.pre.next_object_id
        /\ DOMAIN last.given = {}

\* an empty update that dropped one track and kept another
C11_Witness ==
    /\ last.called
    /\ Len(last.detections) = 0
    /\ last.gone # {}
    /\ \E id \in DOMAIN objects : disappeared[id] = last.pre.disappeared[id] + 1

(* C12: an update with zero live tracks and n >= 1 detections registers    *)
(* every input centroid as a new track in input order: the detection at    *)
(* input position i (from 0) gets id next_object_id + i, with count 0,     *)
(* and next_object_id goes up by n.                                        *)
C12_RegisterAll ==
    (last.called /\ DOMAIN last.pre.objects = {} /\ Len(last.detections) >= 1) =>
        /\ next_object_id = last.pre.next_object_id + Len(last.detections)
        /\ DOMAIN objects = last.pre.next_object_id .. (next_object_id - 1)
        /\ DOMAIN disappeared = DOMAIN objects
        /\ \A c \in DOMAIN last.centroids :
              /\ objects[last.pre.next_object_id + c - 1] = last.centroids[c]
              /\ disappeared[last.pre.next_object_id + c - 1] = 0

\* two detections registered after every earlier track had expired
C12_Witness ==
    /\ last.called
    /\ DOMAIN last.pre.objects = {}
    /\ last.pre.next_object_id > 0
    /\ Len(last.detections) = 2
    /\ last.centroids[1] # last.centroids[2]
    /\ objects[last.pre.next_object_id] = last.centroids[1]

(* C13: the mapping returned by an update is the set of tracks alive after *)
(* it: every track matched or registered in the call, at the centroid of   *)
(* its detection, and every unmatched track whose count is still at most   *)
(* max_disappeared, at its old centroid; no id deregistered in this or an  *)
(* earlier call is in it.                                                  *)
C13_ReturnsLiveSet ==
    last.called =>
        LET fresh     == {last.given[c] : c \in DOMAIN last.given}
            unmatched == (DOMAIN last.pre.objects) \ MatchedIds
        IN  /\ DOMAIN objects = MatchedIds \cup fresh \cup (unmatched \ OverThreshold)
            /\ \A pr \in last.pairs : objects[pr[1]] = last.centroids[pr[2]]
            /\ \A c \in DOMAIN last.given : objects[last.given[c]] = last.centroids[c]
            /\ \A id \in unmatched \ OverThreshold : objects[id] = last.pre.objects[id]
            /\ (unmatched \cap OverThreshold) \cap DOMAIN objects = {}
            /\ removed \cap DOMAIN objects = {}

\* one update that matched a track, registered a detection and dropped a
\* track, after an earlier update had dropped another
C13_Witness ==
    /\ last.called
    /\ MatchedIds # {}
    /\ DOMAIN last.given # {}
    /\ last.gone # {}
    /\ removed # {}

\* the id of the first zone of zs, in list order, whose polygon contains
\* the point; None when there is none
FirstContaining(zs, point) ==
    LET hits == {i \in DOMAIN zs : point_in_polygon(point, zs[i].coordinates).inside}
    IN  IF hits = {} THEN None ELSE zs[Min(hits)].id

(* C14: detect_zone returns the id of the first zone, in the order the     *)
(* zones were passed to load_zones, whose polygon contains the point, and  *)
(* None when no loaded zone, or an empty zone list, contains it; for       *)
(* overlapping zones loaded as [A, B] that both contain P it returns A's   *)
(* id.                                                                     *)
C14_ResolutionOrder ==
    resolve.pc = "done" =>
        /\ resolve.ret = FirstContaining(resolve.start, resolve.point)
        /\ (resolve.start = <<ZoneA, ZoneB>> /\ resolve.point = <<14, 12>>)
              => resolve.ret = ZoneA.id
        /\ resolve.start = <<>> => resolve.ret = None

\* zones loaded as [A, B], both containing (14,12): the call returned A's id
C14_Witness ==
    /\ resolve.pc = "done"
    /\ resolve.start = <<ZoneA, ZoneB>>
    /\ resolve.point = <<14, 12>>
    /\ point_in_polygon(resolve.point, ZoneA.coordinates).inside
    /\ point_in_polygon(resolve.point, ZoneB.coordinates).inside
    /\ resolve.ret = ZoneA.id

(* C15: a load_zones call with a zone of fewer than 3 vertices is rejected *)
(* as a whole and leaves the snapshot as it was, so after any sequence of  *)
(* loads every zone of the current snapshot has at least 3 vertices.       *)
C15_ValidatedLoad ==
    \A i \in DOMAIN zones : Len(zones[i].coordinates) >= 3

(* C16: a detect_zone call in flight while load_zones runs evaluates the   *)
(* point against the complete old list or the complete new list, never a   *)
(* mixture of both; a call during which no reload happened evaluates it    *)
(* against the list loaded last before it started.                         *)
C16_AtomicSwap ==
    resolve.pc = "done" =>
        /\ resolve.ret \in {FirstContaining(zs, resolve.point) :
                               zs \in {resolve.start} \cup resolve.seen}
        /\ resolve.seen = {} => resolve.ret = FirstContaining(resolve.start, resolve.point)

\* a call that started on [A, B], saw the reload to [B, A] after its loop
\* had begun, and returned A's id for a point in both zones
C16_Witness ==
    /\ resolve.pc = "done"
    /\ resolve.start = <<ZoneA, ZoneB>>
    /\ resolve.seen = {<<ZoneB, ZoneA>>}
    /\ zones = <<ZoneB, ZoneA>>
    /\ resolve.point = <<14, 12>>
    /\ resolve.ret = ZoneA.id
    /\ FirstContaining(zones, resolve.point) = ZoneB.id

(* C17: process_frame assembles its result from exactly one tracker        *)
(* update: the tracker is the one before the call after one update with    *)
(* the frame's detections; zone_analysis has the keys of the mapping that  *)
(* update returned; for every id the position is the track's centroid and  *)
(* the zone_id is the first zone, of the snapshot loaded at that time,     *)
(* containing it; person_count is the number of live tracks.               *)
C17_FrameResult ==
    result.called =>
        LET f == frames[Len(frames)]
        IN  /\ last.called
            /\ last.detections = f.detections
            /\ result.detections = f.detections
            /\ Tracker = update(last.pre, f.detections, last.rows).T
            /\ DOMAIN result.zone_analysis = DOMAIN tracked_objects
            /\ \A id \in DOMAIN tracked_objects :
                  /\ result.zone_analysis[id].position = tracked_objects[id]
                  /\ result.zone_analysis[id].zone_id =
                         FirstContaining(f.zones, tracked_objects[id])
            /\ result.person_count = Cardinality(DOMAIN tracked_objects)
            /\ f.zone_analysis = result.zone_analysis

\* a second frame whose update returned other ids than the first one's,
\* with one track in the loaded zone and one in none
C17_Witness ==
    /\ result.called
    /\ Len(frames) = 2
    /\ DOMAIN frames[1].zone_analysis # DOMAIN result.zone_analysis
    /\ \E a, b \in DOMAIN result.zone_analysis :
          /\ result.zone_analysis[a].zone_id # None
          /\ result.zone_analysis[b].zone_id = None

\* the process_video call is under way or has returned
VideoRunning == video.pc \in {"loop", "frame", "done"}

\* ceil(n / 5)
SampledCount(n) == (n + 4) \div 5

\* what holds of a process_video call at every moment: the k-th result
\* (from 0) is the process_frame result of frame 5k, the results and the
\* callback invocations so far are those of the sampled frames read so
\* far, in order, and the tracker has been updated once per result
C18_SoFar ==
    VideoRunning =>
        /\ \A k \in DOMAIN video.results :
              /\ video.results[k].index = 5 * (k - 1)
              /\ video.results[k].index < video.n
              /\ video.results[k].result.zone_analysis = frames[k].zone_analysis
              /\ video.results[k].result.detections = frames[k].detections
        /\ Len(video.results) = SampledCount(video.frame_count)
        /\ Len(frames) = Len(video.results) + (IF video.pc = "frame" /\ result.called
                                                  /\ Len(frames) > Len(video.results)
                                               THEN 1 ELSE 0)
        /\ IF video.callback
           THEN /\ Len(video.calls) = Len(video.results)
                /\ \A k \in DOMAIN video.calls :
                      /\ video.calls[k].frame_count = video.results[k].index
                      /\ video.calls[k].result = video.results[k].result
           ELSE video.calls = <<>>
        /\ video.pc = "done" =>
              /\ video.frame_count = video.n
              /\ Len(video.results) = SampledCount(video.n)

\* a step that does not process a sampled frame leaves the tracker alone
C18_SkippedStep ==
    (Tracker' # Tracker) =>
        /\ video.pc = "frame"
        /\ video.frame_count % 5 = 0
        /\ Len(frames') = Len(frames) + 1

\* the steps a process_video call has left at most: three per frame not
\* yet counted (read, process, append), one for the read that finds the end
Remaining ==
    IF video.pc = "done" THEN 0
    ELSE 3 * (video.n - video.frame_count)
         + (IF video.pc = "loop" THEN 1
            ELSE IF Len(frames) = Len(video.results) THEN 0 ELSE -1)

\* every step of a call under way brings it nearer to its return
C18_Decreases ==
    video.pc \in {"loop", "frame"} =>
        /\ video'.pc \in {"loop", "frame", "done"}
        /\ Remaining' < Remaining
        /\ Remaining' >= 0

\* a call under way can always take its next step: read a frame, process
\* the frame read (update takes any detection list), or append the result
C18_CanStep ==
    /\ video.pc = "loop" => ENABLED (\E d \in VideoLists : VideoRead(d))
    /\ (video.pc = "frame" /\ Len(frames) # Len(video.results)) => ENABLED VideoAppend
    /\ (video.pc = "frame" /\ Len(frames) = Len(video.results)) => Len(frames) < MaxFrames

(* C18: for a file of n frames process_video terminates (a step is always  *)
(* possible until it returns, and every step lowers the number of steps    *)
(* left); it processes exactly the frames 0, 5, 10, ... in increasing      *)
(* order, returns ceil(n / 5) results in that order and calls the          *)
(* callback once per sampled frame with that frame's index; a skipped      *)
(* frame gives no result and no tracker update.                            *)
C18_SampledIteration ==
    /\ []C18_SoFar
    /\ [][C18_SkippedStep]_vars
    /\ [][C18_Decreases]_vars
    /\ []C18_CanStep

\* a file of 7 frames gave the results of frames 0 and 5, with the callback
\* called for both; the person of frame 0 was missing in frame 5 and has a
\* count of 1, five skipped frames notwithstanding
C18_Witness ==
    /\ video.pc = "done"
    /\ video.n = 7
    /\ video.callback
    /\ Len(video.results) = 2
    /\ video.results[2].index = 5
    /\ video.calls[2].frame_count = 5
    /\ DOMAIN disappeared = {0}
    /\ disappeared[0] = 1

-----------------------------------------------------------------------------
(* Claims about point_in_polygon, under SpecPoly.                          *)

\* the point lies on an edge of the polygon
OnBoundary(point, poly) ==
    \E i \in 1..Len(poly) : OnSegment(point, poly[i], After(poly, i))

\* far end of a ray from the point that rises by 1 for every RaySlope to
\* the right: it passes through no other point with integer coordinates up
\* to its far end, which lies above every polygon
RaySlope == 2 * MaxCoord + 5

RayEnd(point) ==
    <<point[1] + (MaxCoord + 3) * RaySlope, point[2] + (MaxCoord + 3)>>

\* the edges that this ray crosses
RayCrossings(point, poly) ==
    {i \in 1..Len(poly) :
        LET a == poly[i]
            b == After(poly, i)
            q == RayEnd(point)
        IN  /\ Sign(Cross(point, q, a)) * Sign(Cross(point, q, b)) < 0
            /\ Sign(Cross(a, b, point)) * Sign(Cross(a, b, q)) < 0}

StrictlyInside(point, poly) ==
    ~OnBoundary(point, poly) /\ Cardinality(RayCrossings(point, poly)) % 2 = 1

StrictlyOutside(point, poly) ==
    ~OnBoundary(point, poly) /\ Cardinality(RayCrossings(point, poly)) % 2 = 0

\* C19: for a simple polygon with at least 3 integer vertices and an integer
\* point, point_in_polygon returns without error, true when the point is
\* strictly inside the polygon and false when it is strictly outside.
C19_PointInPolygon ==
    contains.pc = "done" =>
        /\ ~contains.st.error
        /\ StrictlyInside(contains.point, contains.polygon) => contains.st.inside
        /\ StrictlyOutside(contains.point, contains.polygon) => ~contains.st.inside

\* point_in_polygon has returned true for a point strictly inside a polygon,
\* whose horizontal ray to the right passes exactly through a vertex
C19_Witness ==
    /\ contains.pc = "done"
    /\ StrictlyInside(contains.point, contains.polygon)
    /\ \E i \in 1..Len(contains.polygon) :
          /\ contains.polygon[i][2] = contains.point[2]
          /\ contains.polygon[i][1] > contains.point[1]
    /\ contains.st.inside

\* the turn t of the loop has toggled the inside flag
Toggled(t) == t.after.inside # t.before.inside

\* min(p1y, p2y) < y <= max(p1y, p2y)
InBand(point, t) ==
    Lesser(t.p1[2], t.p2[2]) < point[2] /\ point[2] <= Greater(t.p1[2], t.p2[2])

\* the point's x is <= the x at which the non-horizontal edge of t crosses
\* the point's height: the point is on the edge's line or to the left of it,
\* looking from the lower end point to the upper one
LeftOrOn(point, t) ==
    IF t.p1[2] < t.p2[2] THEN Cross(t.p1, t.p2, point) >= 0
                         ELSE Cross(t.p2, t.p1, point) >= 0

\* the end point of the edge of t with the smaller y
LowerEnd(t) == IF t.p1[2] < t.p2[2] THEN t.p1 ELSE t.p2

\* the rule of C20 and those of its consequences that concern horizontal
\* edges and the reading of xinters, for the turn t
EdgeRule(point, t) ==
    /\ ~t.after.error
    /\ Toggled(t) <=> (InBand(point, t) /\ LeftOrOn(point, t))
    /\ t.p1[2] = t.p2[2] => ~Toggled(t)
    /\ ~t.old

\* C20 as stated: in point_in_polygon an edge toggles the inside flag exactly
\* when min(p1y,p2y) < y <= max(p1y,p2y) and x is <= the x at which the edge
\* crosses height y; a horizontal edge never toggles, the interpolated
\* intersection is never read unassigned or stale, and a point exactly on a
\* non-horizontal edge toggles for that edge.
C20_AsStated ==
    contains.pc = "done" =>
        \A k \in 1..Len(contains.trace) :
            LET t == contains.trace[k]
            IN  /\ EdgeRule(contains.point, t)
                /\ (t.p1[2] # t.p2[2] /\ OnSegment(contains.point, t.p1, t.p2))
                      => Toggled(t)

\* C20: in point_in_polygon an edge toggles the inside flag exactly when
\* min(p1y,p2y) < y <= max(p1y,p2y) and x is <= the x at which the edge
\* crosses height y; a horizontal edge never toggles, the interpolated
\* intersection is never read unassigned or stale, and a point exactly on a
\* non-horizontal edge, other than its lower end point, toggles for that edge.
C20_EdgePolicy ==
    contains.pc = "done" =>
        \A k \in 1..Len(contains.trace) :
            LET t == contains.trace[k]
            IN  /\ EdgeRule(contains.point, t)
                /\ (/\ t.p1[2] # t.p2[2]
                    /\ OnSegment(contains.point, t.p1, t.p2)
                    /\ contains.point # LowerEnd(t))
                      => Toggled(t)

\* point_in_polygon has run on a point that lies on a non-horizontal edge
\* above its lower end point, which toggled, and on a horizontal edge, which
\* did not
C20_Witness ==
    /\ contains.pc = "done"
    /\ \E k \in 1..Len(contains.trace) :
          LET t == contains.trace[k]
          IN  /\ t.p1[2] # t.p2[2]
              /\ OnSegment(contains.point, t.p1, t.p2)
              /\ contains.point # LowerEnd(t)
              /\ Toggled(t)
    /\ \E k \in 1..Len(contains.trace) :
          LET t == contains.trace[k]
          IN  /\ t.p1[2] = t.p2[2]
              /\ t.p1 # t.p2
              /\ OnSegment(contains.point, t.p1, t.p2)
              /\ ~Toggled(t)

-----------------------------------------------------------------------------
(* Claims about failed calls, results kept by the caller, and sources.     *)

(* C21: when update is called with a detection list holding a malformed    *)
(* item and the call fails, the live tracks, their centroids and counts    *)
(* and next_object_id are what they were before the call, and later        *)
(* updates behave as if the failed call had not happened: the tracker      *)
(* always equals a tracker that received the successful calls only.        *)
C21_FailedCallNoEffect ==
    /\ (last.called /\ last.branch = "raised") =>
          /\ objects = last.pre.objects
          /\ disappeared = last.pre.disappeared
          /\ next_object_id = last.pre.next_object_id
    /\ Tracker = shadow.tracker

\* after a call that failed, an update has matched the one track ever
\* registered
C21_Witness ==
    /\ last.called
    /\ last.branch = "match"
    /\ last.pairs # {}
    /\ shadow.skipped > 0
    /\ tick = 3
    /\ Len(assigned) = 1

(* C22: the tracks mapping of the result returned for one frame is not     *)
(* changed by processing a later frame: in the list of process_video each  *)
(* result shows the tracks that were alive after its own frame             *)
(* (frames[k].tracked is the mapping as it was when frame k returned).     *)
C22_ResultNotRetained ==
    VideoRunning =>
        \A k \in DOMAIN video.results :
            tracks_of(video.results[k].result) = frames[k].tracked

(* C23: the track ids and centroids reported while processing one frame    *)
(* source do not depend on frames of any other source: they are those of   *)
(* a tracker that has seen this source's frames only, and the source's     *)
(* first registered track has id 0.  The result at hand is one of the      *)
(* current source once a frame has been processed since its request.       *)
C23_StreamsIndependent ==
    (result.called /\ Len(frames) > shadow.skipped) =>
        /\ tracks_of(result) = shadow.tracker.objects
        /\ DOMAIN result.zone_analysis = DOMAIN shadow.tracker.objects
        /\ next_object_id = shadow.tracker.next_object_id

-----------------------------------------------------------------------------
(* Claims about single updates, continued.                                 *)

(* C24: an update([]) on a tracker with no live track leaves the live set  *)
(* empty, returns an empty mapping, registers nothing and leaves           *)
(* next_object_id unchanged; the state after it is again one with no live  *)
(* track, so this holds for any number of such calls in a row.             *)
C24_EmptyIdempotent ==
    (last.called /\ DOMAIN last.pre.objects = {} /\ Len(last.detections) = 0) =>
        /\ Tracker = last.pre
        /\ DOMAIN objects = {}
        /\ DOMAIN disappeared = {}
        /\ last.gone = {}
        /\ DOMAIN last.given = {}

\* three update([]) calls in a row on a new tracker
C24_Witness ==
    /\ last.called
    /\ Len(last.detections) = 0
    /\ DOMAIN last.pre.objects = {}
    /\ tick = 3
    /\ assigned = <<>>
    /\ next_object_id = 0

(* C25: every (track, detection) pair made in an update sets the track's   *)
(* centroid to that detection's centroid and its count to 0, whatever the  *)
(* count was before; a matched track is not deregistered in the update     *)
(* that matched it.                                                        *)
C25_PairEffect ==
    last.called =>
        \A pr \in last.pairs :
            /\ pr[1] \in DOMAIN last.pre.objects
            /\ pr[1] \in DOMAIN objects
            /\ objects[pr[1]] = last.centroids[pr[2]]
            /\ disappeared[pr[1]] = 0
            /\ run[pr[1]] = 0
            /\ pr[1] \notin last.gone
            /\ pr[1] \notin removed

\* a track with count max_disappeared was matched to a detection at another
\* place, in an update that deregistered another track
C25_Witness ==
    /\ last.called
    /\ last.gone # {}
    /\ \E pr \in last.pairs :
          /\ last.pre.disappeared[pr[1]] = max_disappeared
          /\ last.pre.objects[pr[1]] # last.centroids[pr[2]]
          /\ objects[pr[1]] = last.centroids[pr[2]]
          /\ disappeared[pr[1]] = 0

(* C26: in an update with at least one detection, every track live before  *)
(* the call and not matched in it has its count raised by exactly 1; it is *)
(* deregistered exactly when the new count exceeds max_disappeared, and    *)
(* otherwise stays live with its centroid unchanged.                       *)
C26_UnmatchedRows ==
    (last.called /\ Len(last.detections) >= 1) =>
        \A id \in (DOMAIN last.pre.objects) \ MatchedIds :
            IF last.pre.disappeared[id] + 1 > max_disappeared
            THEN /\ id \in last.gone
                 /\ id \notin DOMAIN objects
                 /\ id \notin DOMAIN disappeared
            ELSE /\ id \notin last.gone
                 /\ id \in DOMAIN objects
                 /\ objects[id] = last.pre.objects[id]
                 /\ disappeared[id] = last.pre.disappeared[id] + 1

\* an update with a detection that matched one track while another track,
\* already counted max_disappeared times, was counted again and dropped
C26_Witness ==
    /\ last.called
    /\ Len(last.detections) >= 1
    /\ last.pairs # {}
    /\ \E a \in (DOMAIN last.pre.objects) \ MatchedIds :
          /\ last.pre.disappeared[a] = max_disappeared
          /\ a \in last.gone
          /\ a \notin DOMAIN objects

(* C27: a track is deregistered only when its count exceeds                *)
(* max_disappeared; a track unmatched in k <= max_disappeared consecutive  *)
(* updates is still live, under its id, with count k and the centroid it   *)
(* had; when a detection then matches it (which takes a detection within   *)
(* 50 px of that centroid) it keeps its id and its count returns to 0.     *)
C27_OcclusionTolerance ==
    /\ \A id \in DOMAIN run :
          /\ run[id] <= max_disappeared =>
                /\ id \in DOMAIN objects
                /\ disappeared[id] = run[id]
          /\ id \in removed => run[id] > max_disappeared
    /\ last.called =>
          /\ \A id \in last.gone : last.pre.disappeared[id] + 1 > max_disappeared
          /\ \A id \in ((DOMAIN last.pre.objects) \ MatchedIds) \cap DOMAIN objects :
                objects[id] = last.pre.objects[id]
          /\ \A pr \in last.pairs :
                last.pre.disappeared[pr[1]] >= 1 =>
                    /\ Within50(last.pre.objects[pr[1]], last.centroids[pr[2]])
                    /\ pr[1] \in DOMAIN objects
                    /\ disappeared[pr[1]] = 0

\* the first track went unmatched max_disappeared times in a row, kept its
\* centroid, and was then matched by a detection 2 px away
C27_Witness ==
    /\ last.called
    /\ tick = max_disappeared + 2
    /\ <<0, 1>> \in last.pairs
    /\ last.pre.disappeared[0] = max_disappeared
    /\ last.pre.objects[0] = <<10, 10>>
    /\ objects[0] = <<12, 11>>
    /\ disappeared[0] = 0

\* the track that stands for input position c after the update: the track
\* paired with it, or else the track registered for it (-1 when neither)
TrackOfCol(c) ==
    IF c \in MatchedCols THEN (CHOOSE pr \in last.pairs : pr[2] = c)[1]
    ELSE IF c \in DOMAIN last.given THEN last.given[c]
    ELSE -1

(* C28: after an update with n >= 1 detections, each input detection's     *)
(* centroid is the centroid of a live track with count 0, distinct input   *)
(* positions have distinct tracks, and the returned mapping has at least n *)
(* entries.                                                                *)
C28_EveryDetectionTracked ==
    (last.called /\ Len(last.detections) >= 1) =>
        /\ \A c \in DOMAIN last.centroids :
              /\ TrackOfCol(c) \in DOMAIN objects
              /\ objects[TrackOfCol(c)] = last.centroids[c]
              /\ disappeared[TrackOfCol(c)] = 0
        /\ \A c, d \in DOMAIN last.centroids : c # d => TrackOfCol(c) # TrackOfCol(d)
        /\ Cardinality(DOMAIN objects) >= Len(last.detections)

\* two detections: one was paired with a track, the other matched none and
\* was registered, while a third track stayed unmatched
C28_Witness ==
    /\ last.called
    /\ Len(last.detections) = 2
    /\ Cardinality(last.pairs) = 1
    /\ Cardinality(DOMAIN last.given) = 1
    /\ Cardinality(DOMAIN objects) = 3
    /\ objects[TrackOfCol(1)] = last.centroids[1]
    /\ objects[TrackOfCol(2)] = last.centroids[2]

(* C29: within one update no detection is paired with more than one track  *)
(* and no track with more than one detection; the number of live tracks    *)
(* after the update is the number before, minus the tracks deregistered in *)
(* it, plus the number of detections that were not paired.                 *)
C29_OneToOne ==
    last.called =>
        /\ \A p, q \in last.pairs : p # q => (p[1] # q[1] /\ p[2] # q[2])
        /\ Cardinality(MatchedIds) = Cardinality(last.pairs)
        /\ Cardinality(MatchedCols) = Cardinality(last.pairs)
        /\ Cardinality(DOMAIN objects) =
              Cardinality(DOMAIN last.pre.objects) - Cardinality(last.gone)
                + (Len(last.detections) - Cardinality(MatchedCols))

\* two tracks had the same nearest detection, within the gate of both: one
\* was paired with it and the other was not
C29_Witness ==
    /\ last.called
    /\ Len(last.detections) = 1
    /\ Cardinality(last.pairs) = 1
    /\ \E a, b \in DOMAIN last.pre.objects :
          /\ a # b
          /\ Within50(last.pre.objects[a], last.centroids[1])
          /\ Within50(last.pre.objects[b], last.centroids[1])
          /\ a \in MatchedIds
          /\ b \notin MatchedIds

(* C30: in every reachable state each live track's count is an integer     *)
(* between 0 and max_disappeared inclusive, and a track registered by the  *)
(* last update has count 0.                                                *)
C30_BoundedCounter ==
    /\ \A id \in DOMAIN disappeared : disappeared[id] \in 0..max_disappeared
    /\ last.called =>
          \A c \in DOMAIN last.given :
              /\ last.given[c] \in DOMAIN disappeared
              /\ disappeared[last.given[c]] = 0

\* an update left one track at count max_disappeared and registered
\* another, with count 0
C30_Witness ==
    /\ last.called
    /\ \E id \in DOMAIN last.pre.objects :
          /\ id \in DOMAIN disappeared
          /\ disappeared[id] = max_disappeared
          /\ last.pre.disappeared[id] = max_disappeared - 1
    /\ \E c \in DOMAIN last.given : disappeared[last.given[c]] = 0

====
